---- MODULE Spec2Model ----
(***************************************************************************)
(* Bulk downloader for a paginated calendar widget                         *)
(* (src/bulk_downloader/utils.py, driven as in src/main.py).               *)
(*                                                                         *)
(* Dates are day numbers (integers); a timedelta of n days is the integer  *)
(* n.  The calendar widget shows page_months (PageMonths, unless stated    *)
(* otherwise) consecutive months of MonthLen day cells each; `view` is the *)
(* index of the oldest month shown.  The                                   *)
(* about:downloads tab is the multiset of its .download elements, counted  *)
(* by whether the element carries a `state` attribute.                     *)
(***************************************************************************)
EXTENDS Integers, Sequences, FiniteSets, TLC

\* ------------------------------------------------------------- bounds
MonthLen == 3
NMonths == 4
MaxBlockSize == 4
\* most months one calendar page shows, in the runs that scan only
MaxPageMonths == 3

\* largest absolute value of a number typed at a menu prompt
MaxInput == 6
\* requests after which a run of main.py's download loop is cut off
MaxSubmits == 3

\* ---------------------------------------------------- program constants
\* the menus of main
ds_choices == <<"Italy Coronavirus Disease Prevention Map Feb 24 2020 Id">>
dst_choices ==
    <<"[Discontinued] Facebook Population (Administrative Regions) v1",
      "[Discontinued] Facebook Population (Tile Level) v1",
      "[Discontinued] Movement Between Administrative Regions v1",
      "[Discontinued] Movement Between Tiles v1",
      "[Discontinued] Colocation">>
\* the integers int(input()) may return at a menu prompt
MenuInputs == (-MaxInput)..MaxInput

\* month headings (h2) found on one calendar page: the widget shows two
\* months at a time, which is why scan_all_dates pages back by two
PageMonths == 2
\* months scan_all_dates pages back after each page scan
ScanStep == 2

NumDays == NMonths * MonthLen
Days == 0..(NumDays - 1)
BlockSizes == 1..MaxBlockSize

\* The availability patterns the platform is started with: no data at all,
\* data on every day of a range, data on the two ends of a range only.
Calendars ==
    {{}} \cup {lo..hi : lo \in Days, hi \in Days}
         \cup {{lo, hi} : lo \in Days, hi \in Days}

\* Pages the calendar widget may show when it is opened.
OpenViews == 0..(NMonths - PageMonths)

VARIABLES
    calendar,                   \* platform: the dates that have data
    view,                       \* calendar widget: oldest month shown
    downloads,                  \* about:downloads: [pending, nostate, state]
    pc,                         \* position of the single thread of control
    err,                        \* exception that ended the run, or "none"
    total_availability_df_arr,  \* scan_all_dates: one data frame per page
    available_dates,            \* self.available_dates
    block_size,                 \* download_iteration's parameter
    current_date,               \* download_iteration's cursor
    next_date,
    focus,                      \* index of the browser window in focus
    blocks,                     \* pairs passed to choose_date_interval
    update_clicks,              \* clicks on 'Aggiorna'
    download_clicks,            \* clicks on 'Download files'
    scans,                      \* page scans of the choose_date_interval call
    navs,                       \* page-back clicks of the choose_date_interval call
    clicked,                    \* date cells it clicked in the open calendar
    slept,                      \* the running dl_check has slept at least once
    page_months,                \* month headings (h2) the calendar page shows
    log,                        \* interactions since the last selection began
    windows,                    \* browser windows open
    user_ds_choice,             \* main: number entered for the dataset
    user_dst_choice,            \* main: number entered for the dataset type
    search_term,                \* main: the dataset chosen
    dataset_type,               \* main: the dataset type chosen
    browser,                    \* a browser session exists
    clicked_handles             \* handle and page shown of each of those clicks

vars == <<calendar, view, downloads, pc, err, total_availability_df_arr,
          available_dates, block_size, current_date, next_date, focus,
          blocks, update_clicks, download_clicks, scans, navs, clicked,
          slept, page_months, log, windows, user_ds_choice,
          user_dst_choice, search_term, dataset_type, browser,
          clicked_handles>>

\* ------------------------------------------------------------ helpers
RECURSIVE SetToSeq(_)
\* the elements of a finite set of integers in ascending order
SetToSeq(S) ==
    IF S = {} THEN <<>>
    ELSE LET m == CHOOSE x \in S : \A y \in S : x <= y
         IN <<m>> \o SetToSeq(S \ {m})

\* date cells of the page whose oldest month is v
VisibleDates(v) == (v * MonthLen)..((v + page_months) * MonthLen - 1)

\* scan_visible_dates: one DateAvail row per visible cell, indexed by date;
\* element is the handle of the cell in the page snapshot taken at view v
ScanVisibleDates(v) ==
    [d \in VisibleDates(v) |->
        [element |-> <<v, d>>, available |-> d \in calendar]]

\* rows of a data frame with available == True, in row order
AvailableRows(df) == SetToSeq({d \in DOMAIN df : df[d].available})

RECURSIVE ConcatAvailable(_)
\* pd.concat(...).query("available==True").index as a list
ConcatAvailable(arr) ==
    IF arr = <<>> THEN <<>>
    ELSE AvailableRows(Head(arr)) \o ConcatAvailable(Tail(arr))

\* list.sort()
SortDates(s) == SortSeq(s, LAMBDA a, b : a < b)

\* goto_prev_month(n)
GotoPrevMonth(v, n) == v - n

\* ------------------------------------------------- download_iteration
\* starting cursor: self.available_dates[-1]
StartDateFirst(dates) == dates[1]
StartDate(dates) == dates[Len(dates)]

\* current_date - timedelta(days=block_size)
NextDateStall(cur, bs) == cur
NextDate(cur, bs) == cur - bs

\* loop guard: next_date > self.available_dates[0]
LoopCondInclusive(nxt, dates) == nxt >= dates[1]
LoopCond(nxt, dates) == nxt > dates[1]

\* cursor advance: current_date = next_date
AdvanceCursorSkip(nxt) == nxt - 1
AdvanceCursor(nxt) == nxt

\* the pair of the final call: (current_date, self.available_dates[0])
FlushPairWhole(cur, dates) == <<dates[Len(dates)], dates[1]>>
FlushPair(cur, dates) == <<cur, dates[1]>>

\* choose_date_interval with a second page-back in the handler
ChooseDateIntervalTwice(v, cur, nxt) ==
    IF cur \in DOMAIN ScanVisibleDates(v) /\ nxt \in DOMAIN ScanVisibleDates(v)
    THEN [view |-> v, scans |-> 1, navs |-> 0,
          clicked |-> <<cur, nxt>>, err |-> "none"]
    ELSE LET first == IF cur \in DOMAIN ScanVisibleDates(v) THEN <<cur>> ELSE <<>>
             v2 == GotoPrevMonth(v, 1)
             v3 == GotoPrevMonth(v2, 1)
         IN  IF nxt \in DOMAIN ScanVisibleDates(v2)
             THEN [view |-> v2, scans |-> 2, navs |-> 1,
                   clicked |-> first \o <<nxt>>, err |-> "none"]
             ELSE IF nxt \in DOMAIN ScanVisibleDates(v3)
             THEN [view |-> v3, scans |-> 3, navs |-> 2,
                   clicked |-> first \o <<nxt>>, err |-> "none"]
             ELSE [view |-> v3, scans |-> 3, navs |-> 2,
                   clicked |-> first, err |-> "KeyError"]

\* choose_date_interval whose handler also clicks current_date again
ChooseDateIntervalReselect(v, cur, nxt) ==
    IF cur \in DOMAIN ScanVisibleDates(v) /\ nxt \in DOMAIN ScanVisibleDates(v)
    THEN [view |-> v, scans |-> 1, navs |-> 0,
          clicked |-> <<cur, nxt>>, err |-> "none"]
    ELSE LET first == IF cur \in DOMAIN ScanVisibleDates(v) THEN <<cur>> ELSE <<>>
             v2 == GotoPrevMonth(v, 1)
         IN  IF nxt \in DOMAIN ScanVisibleDates(v2) /\ cur \in DOMAIN ScanVisibleDates(v2)
             THEN [view |-> v2, scans |-> 2, navs |-> 1,
                   clicked |-> first \o <<nxt, cur>>, err |-> "none"]
             ELSE [view |-> v2, scans |-> 2, navs |-> 1,
                   clicked |-> first, err |-> "KeyError"]

\* choose_date_interval(current_date, next_date) started on page v: the page
\* it leaves the widget on, its page scans, page-back clicks and cell clicks,
\* and the exception it lets escape.  .loc[date] raises KeyError when the
\* scanned page has no cell for the date; a cell is clicked whether or not it
\* is available.
ChooseDateInterval(v, cur, nxt) ==
    IF cur \in DOMAIN ScanVisibleDates(v) /\ nxt \in DOMAIN ScanVisibleDates(v)
    THEN [view |-> v, scans |-> 1, navs |-> 0,
          clicked |-> <<cur, nxt>>, err |-> "none"]
    ELSE LET first == IF cur \in DOMAIN ScanVisibleDates(v) THEN <<cur>> ELSE <<>>
             v2 == GotoPrevMonth(v, 1)
         IN  IF nxt \in DOMAIN ScanVisibleDates(v2)
             THEN [view |-> v2, scans |-> 2, navs |-> 1,
                   clicked |-> first \o <<nxt>>, err |-> "none"]
             ELSE [view |-> v2, scans |-> 2, navs |-> 1,
                   clicked |-> first, err |-> "KeyError"]

\* a click made through a handle while the widget shows the page `page`
Click(element, page) == [element |-> element, page |-> page]

\* choose_date_interval whose handler does not scan again after paging back
ChooseDateIntervalHandlesNoRescan(v, cur, nxt) ==
    LET df == ScanVisibleDates(v)
    IN  IF cur \in DOMAIN df /\ nxt \in DOMAIN df
        THEN <<Click(df[cur].element, v), Click(df[nxt].element, v)>>
        ELSE LET first == IF cur \in DOMAIN df
                          THEN <<Click(df[cur].element, v)>> ELSE <<>>
                 v2 == GotoPrevMonth(v, 1)
             IN  IF nxt \in DOMAIN df
                 THEN first \o <<Click(df[nxt].element, v2)>>
                 ELSE first

\* the clicks of choose_date_interval(current_date, next_date) started on
\* page v: each goes through the element column of the data frame that
\* availability_df names when it is made
ChooseDateIntervalHandles(v, cur, nxt) ==
    LET df == ScanVisibleDates(v)
    IN  IF cur \in DOMAIN df /\ nxt \in DOMAIN df
        THEN <<Click(df[cur].element, v), Click(df[nxt].element, v)>>
        ELSE LET first == IF cur \in DOMAIN df
                          THEN <<Click(df[cur].element, v)>> ELSE <<>>
                 v2 == GotoPrevMonth(v, 1)
                 df2 == ScanVisibleDates(v2)
             IN  IF nxt \in DOMAIN df2
                 THEN first \o <<Click(df2[nxt].element, v2)>>
                 ELSE first

\* ------------------------------------------------------------ dl_check
\* [bool(e.get_attribute("state")) for e in find_elements(".download")]
DownloadStates(dl) ==
    [i \in 1..(dl.state + dl.nostate) |-> i <= dl.state]

\* dl_check leaving its loop only when no listed element lacks a state
DlCheckDoneAll(dl) ==
    \A i \in DOMAIN DownloadStates(dl) : DownloadStates(dl)[i]
\* dl_check leaves its loop: any(download_states) is not False
DlCheckDone(dl) ==
    \E i \in DOMAIN DownloadStates(dl) : DownloadStates(dl)[i]

\* an interaction with the browser and the window in focus when it is made
Interaction(op, w) == [op |-> op, window |-> w]

\* ---------------------------------------------------------------- Init
Init ==
    /\ calendar \in Calendars
    /\ view \in OpenViews
    /\ downloads = [pending |-> 0, nostate |-> 0, state |-> 0]
    /\ pc = "scan"
    /\ err = "none"
    /\ total_availability_df_arr = <<>>
    /\ available_dates = <<>>
    /\ block_size = 1
    /\ current_date = 0
    /\ next_date = 0
    /\ focus = 0
    /\ blocks = <<>>
    /\ update_clicks = 0
    /\ download_clicks = 0
    /\ scans = 0
    /\ navs = 0
    /\ clicked = <<>>
    /\ slept = FALSE
    /\ page_months = PageMonths
    /\ log = <<>>
    /\ windows = 1
    /\ user_ds_choice = 0
    /\ user_dst_choice = 0
    /\ search_term = ds_choices[1]
    /\ dataset_type = dst_choices[1]
    /\ browser = TRUE
    /\ clicked_handles = <<>>

\* ------------------------------------------------------ scan_all_dates
\* loop guard of scan_all_dates: while (n_available_dates)
ScanLoopCondOnce(n) == FALSE
ScanLoopCond(n) == n # 0

\* one iteration of the while loop of scan_all_dates
ScanPage ==
    /\ pc = "scan"
    /\ LET df == ScanVisibleDates(view)
           n_available_dates == Len(AvailableRows(df))
       IN  /\ total_availability_df_arr' = Append(total_availability_df_arr, df)
           /\ view' = GotoPrevMonth(view, ScanStep)
           /\ pc' = IF ScanLoopCond(n_available_dates)
                    THEN "scan" ELSE "scan_exit"
    /\ UNCHANGED <<calendar, downloads, err, available_dates, block_size,
                   current_date, next_date, focus, blocks, update_clicks,
                   download_clicks, scans, navs, clicked, slept, page_months,
                   log, windows, user_ds_choice, user_dst_choice,
                   search_term, dataset_type, browser, clicked_handles>>

\* scan_all_dates after its loop: concat, filter, sort, return
ScanFinish ==
    /\ pc = "scan_exit"
    /\ available_dates' = SortDates(ConcatAvailable(total_availability_df_arr))
    /\ pc' = "scanned"
    /\ UNCHANGED <<calendar, view, downloads, err, total_availability_df_arr,
                   block_size, current_date, next_date, focus, blocks,
                   update_clicks, download_clicks, scans, navs, clicked, slept,
                   page_months, log, windows, user_ds_choice,
                   user_dst_choice, search_term, dataset_type, browser,
                   clicked_handles>>

\* main: the report printed after the scan; min() of an empty list raises
MainReport ==
    /\ pc = "scanned"
    /\ IF available_dates = <<>>
       THEN pc' = "raised" /\ err' = "ValueError"
       ELSE pc' = "reported" /\ err' = err
    /\ UNCHANGED <<calendar, view, downloads, total_availability_df_arr,
                   available_dates, block_size, current_date, next_date,
                   focus, blocks, update_clicks, download_clicks, scans,
                   navs, clicked, slept, page_months, log, windows,
                   user_ds_choice, user_dst_choice, search_term,
                   dataset_type, browser, clicked_handles>>

\* ------------------------------------------------- download_iteration
\* download_iteration up to its loop: monitor tab, dialog, calendar, cursor
DownloadStart ==
    /\ pc \in {"scanned", "reported"}
    /\ \E bs \in BlockSizes, v \in OpenViews :
        /\ block_size' = bs
        /\ view' = v
        /\ focus' = 0
        /\ windows' = windows + 1
        /\ log' = <<Interaction("about:downloads", 1),
                    Interaction("open_dl_dialog", 0),
                    Interaction("open_calendar", 0)>>
        /\ IF available_dates = <<>>
           THEN /\ pc' = "raised"
                /\ err' = "IndexError"
                /\ UNCHANGED <<current_date, next_date>>
           ELSE /\ pc' = "loop"
                /\ err' = err
                /\ current_date' = StartDate(available_dates)
                /\ next_date' = NextDate(StartDate(available_dates), bs)
    /\ UNCHANGED <<calendar, downloads, total_availability_df_arr,
                   available_dates, blocks, update_clicks, download_clicks,
                   scans, navs, clicked, slept, page_months, user_ds_choice,
                   user_dst_choice, search_term, dataset_type, browser,
                   clicked_handles>>

\* loop body, first statement: choose_date_interval(current_date, next_date)
LoopChoose ==
    /\ pc = "loop"
    /\ LoopCond(next_date, available_dates)
    /\ LET r == ChooseDateInterval(view, current_date, next_date)
       IN  /\ blocks' = Append(blocks, <<current_date, next_date>>)
           /\ view' = r.view
           /\ scans' = r.scans
           /\ navs' = r.navs
           /\ clicked' = r.clicked
           /\ clicked_handles' =
                ChooseDateIntervalHandles(view, current_date, next_date)
           /\ err' = r.err
           /\ log' = <<Interaction("choose_date_interval", focus)>>
           /\ pc' = IF r.err = "none" THEN "selected" ELSE "raised"
    /\ UNCHANGED <<calendar, downloads, total_availability_df_arr,
                   available_dates, block_size, current_date, next_date,
                   focus, update_clicks, download_clicks, slept, page_months,
                   windows, user_ds_choice, user_dst_choice, search_term,
                   dataset_type, browser>>

\* loop body: 'Aggiorna', 'Download files', cursor advance, focus the monitor
Submit ==
    /\ pc = "selected"
    /\ update_clicks' = update_clicks + 1
    /\ download_clicks' = download_clicks + 1
    /\ log' = log \o <<Interaction("Aggiorna", focus),
                        Interaction("Download files", focus)>>
    /\ downloads' = [downloads EXCEPT !.pending = @ + 1]
    /\ current_date' = AdvanceCursor(next_date)
    /\ next_date' = NextDate(AdvanceCursor(next_date), block_size)
    /\ focus' = 1
    /\ slept' = FALSE
    /\ pc' = "dl_check"
    \* the request closes the dialog and its calendar (they are reopened at
    \* the end of the loop body): no page is shown, the selection is consumed
    /\ view' = 0
    /\ scans' = 0
    /\ navs' = 0
    /\ clicked' = <<>>
    /\ clicked_handles' = <<>>
    /\ UNCHANGED <<calendar, err, total_availability_df_arr,
                   available_dates, block_size, blocks, page_months,
                   windows, user_ds_choice, user_dst_choice, search_term,
                   dataset_type, browser>>

\* one poll of dl_check: sleep and poll again, or break
DlCheck ==
    /\ pc = "dl_check"
    /\ \/ /\ ~DlCheckDone(downloads)
          /\ slept' = TRUE
          /\ pc' = pc
          /\ log' = log
       \/ /\ DlCheckDone(downloads)
          /\ slept' = slept
          /\ pc' = "reopen"
          /\ log' = Append(log, Interaction("dl_check", focus))
    /\ UNCHANGED <<calendar, view, downloads, err, total_availability_df_arr,
                   available_dates, block_size, current_date, next_date,
                   focus, blocks, update_clicks, download_clicks, scans,
                   navs, clicked, page_months, windows, user_ds_choice,
                   user_dst_choice, search_term, dataset_type, browser,
                   clicked_handles>>

\* the end of the loop body run without dl_check having returned
ReopenUnawaited ==
    /\ pc \in {"dl_check", "reopen"}
    /\ focus' = 0
    /\ log' = log \o <<Interaction("open_dl_dialog", focus'),
                        Interaction("open_calendar", focus')>>
    /\ \E v \in OpenViews : view' = v
    /\ pc' = "loop"
    /\ UNCHANGED <<calendar, downloads, err, total_availability_df_arr,
                   available_dates, block_size, current_date, next_date,
                   blocks, update_clicks, download_clicks, scans, navs,
                   clicked, slept, page_months, windows, user_ds_choice,
                   user_dst_choice, search_term, dataset_type, browser,
                   clicked_handles>>

\* the end of the loop body without the switch to window 0
ReopenNoSwitch ==
    /\ pc = "reopen"
    /\ focus' = focus
    /\ log' = log \o <<Interaction("open_dl_dialog", focus'),
                        Interaction("open_calendar", focus')>>
    /\ \E v \in OpenViews : view' = v
    /\ pc' = "loop"
    /\ UNCHANGED <<calendar, downloads, err, total_availability_df_arr,
                   available_dates, block_size, current_date, next_date,
                   blocks, update_clicks, download_clicks, scans, navs,
                   clicked, slept, page_months, windows, user_ds_choice,
                   user_dst_choice, search_term, dataset_type, browser,
                   clicked_handles>>

\* loop body, end: focus the calendar window, reopen dialog and calendar
Reopen ==
    /\ pc = "reopen"
    /\ focus' = 0
    /\ log' = log \o <<Interaction("open_dl_dialog", focus'),
                        Interaction("open_calendar", focus')>>
    /\ \E v \in OpenViews : view' = v
    /\ pc' = "loop"
    /\ UNCHANGED <<calendar, downloads, err, total_availability_df_arr,
                   available_dates, block_size, current_date, next_date,
                   blocks, update_clicks, download_clicks, scans, navs,
                   clicked, slept, page_months, windows, user_ds_choice,
                   user_dst_choice, search_term, dataset_type, browser,
                   clicked_handles>>

\* after the loop: goto_prev_month(1), choose_date_interval(current, first)
Flush ==
    /\ pc = "loop"
    /\ ~LoopCond(next_date, available_dates)
    /\ LET pair == FlushPair(current_date, available_dates)
           r == ChooseDateInterval(GotoPrevMonth(view, 1), pair[1], pair[2])
       IN  /\ blocks' = Append(blocks, pair)
           /\ view' = r.view
           /\ scans' = r.scans
           /\ navs' = r.navs
           /\ clicked' = r.clicked
           /\ clicked_handles' =
                ChooseDateIntervalHandles(GotoPrevMonth(view, 1),
                                          pair[1], pair[2])
           /\ err' = r.err
           /\ log' = <<Interaction("choose_date_interval", focus)>>
           /\ pc' = IF r.err = "none" THEN "done" ELSE "raised"
    /\ UNCHANGED <<calendar, downloads, total_availability_df_arr,
                   available_dates, block_size, current_date, next_date,
                   focus, update_clicks, download_clicks, slept, page_months,
                   windows, user_ds_choice, user_dst_choice, search_term,
                   dataset_type, browser>>

\* ------------------------------------------------------------ platform
\* the browser lists a requested transfer on about:downloads
TransferStart ==
    /\ downloads.pending > 0
    /\ downloads' = [downloads EXCEPT !.pending = @ - 1, !.nostate = @ + 1]
    /\ UNCHANGED <<calendar, view, pc, err, total_availability_df_arr,
                   available_dates, block_size, current_date, next_date,
                   focus, blocks, update_clicks, download_clicks, scans,
                   navs, clicked, slept, page_months, log, windows,
                   user_ds_choice, user_dst_choice, search_term,
                   dataset_type, browser, clicked_handles>>

\* a listed transfer reaches a terminal state
TransferFinish ==
    /\ downloads.nostate > 0
    /\ downloads' = [downloads EXCEPT !.nostate = @ - 1, !.state = @ + 1]
    /\ UNCHANGED <<calendar, view, pc, err, total_availability_df_arr,
                   available_dates, block_size, current_date, next_date,
                   focus, blocks, update_clicks, download_clicks, scans,
                   navs, clicked, slept, page_months, log, windows,
                   user_ds_choice, user_dst_choice, search_term,
                   dataset_type, browser, clicked_handles>>

Next ==
    \/ ScanPage
    \/ ScanFinish
    \/ MainReport
    \/ DownloadStart
    \/ LoopChoose
    \/ Submit
    \/ DlCheck
    \/ Reopen
    \/ Flush
    \/ TransferStart
    \/ TransferFinish

Spec == Init /\ [][Next]_vars

\* the steps of the program's single thread
Program ==
    \/ ScanPage
    \/ ScanFinish
    \/ MainReport
    \/ DownloadStart
    \/ LoopChoose
    \/ Submit
    \/ DlCheck
    \/ Reopen
    \/ Flush

\* the runs checked for termination: data on the two ends of a range only
\* (download_iteration reads the first and the last available date alone)
InitFair ==
    /\ Init
    /\ calendar \in {{}} \cup {{lo, hi} : lo \in Days, hi \in Days}

\* the thread keeps running, and the browser lists every requested transfer
\* and brings it to a terminal state, so that every dl_check poll returns
FairSpec ==
    /\ InitFair
    /\ [][Next]_vars
    /\ WF_vars(Program)
    /\ WF_vars(TransferStart)
    /\ WF_vars(TransferFinish)

\* ------------------------------------------------------- main (main.py)
\* lst[i] of a Python list: -len(lst) <= i < len(lst), else IndexError
PyInRange(lst, i) == -Len(lst) <= i /\ i < Len(lst)
PyIndex(lst, i) == IF i >= 0 THEN lst[i + 1] ELSE lst[Len(lst) + i + 1]

\* the test main makes on a number typed at a menu prompt
MenuCheck(choice, choices) == choice < Len(choices)

\* main: the dataset prompt
MenuDataset ==
    /\ pc = "menu_ds"
    /\ \E c \in MenuInputs :
        /\ user_ds_choice' = c
        /\ IF MenuCheck(c, ds_choices)
           THEN IF PyInRange(ds_choices, c)
                THEN /\ search_term' = PyIndex(ds_choices, c)
                     /\ pc' = "menu_dst"
                     /\ err' = err
                ELSE /\ search_term' = search_term
                     /\ pc' = "raised"
                     /\ err' = "IndexError"
           ELSE /\ search_term' = search_term
                /\ pc' = "exited"
                /\ err' = err
    /\ UNCHANGED <<calendar, view, downloads, total_availability_df_arr,
                   available_dates, block_size, current_date, next_date,
                   focus, blocks, update_clicks, download_clicks, scans,
                   navs, clicked, slept, page_months, log, windows,
                   user_dst_choice, dataset_type, browser, clicked_handles>>

\* main: the dataset type prompt
MenuDatasetType ==
    /\ pc = "menu_dst"
    /\ \E c \in MenuInputs :
        /\ user_dst_choice' = c
        /\ IF MenuCheck(c, dst_choices)
           THEN IF PyInRange(dst_choices, c)
                THEN /\ dataset_type' = PyIndex(dst_choices, c)
                     /\ pc' = "session"
                     /\ err' = err
                ELSE /\ dataset_type' = dataset_type
                     /\ pc' = "raised"
                     /\ err' = "IndexError"
           ELSE /\ dataset_type' = dataset_type
                /\ pc' = "exited"
                /\ err' = err
    /\ UNCHANGED <<calendar, view, downloads, total_availability_df_arr,
                   available_dates, block_size, current_date, next_date,
                   focus, blocks, update_clicks, download_clicks, scans,
                   navs, clicked, slept, page_months, log, windows,
                   user_ds_choice, search_term, browser, clicked_handles>>

\* main: Dataset(...), login, filter_ds, open_dl_dialog, open_calendar
CreateSession ==
    /\ pc = "session"
    /\ browser' = TRUE
    /\ \E v \in OpenViews : view' = v
    /\ pc' = "scan"
    /\ UNCHANGED <<calendar, downloads, err, total_availability_df_arr,
                   available_dates, block_size, current_date, next_date,
                   focus, blocks, update_clicks, download_clicks, scans,
                   navs, clicked, slept, page_months, log, windows,
                   user_ds_choice, user_dst_choice, search_term,
                   dataset_type, clicked_handles>>

\* the integers int(input()) may return at the block size prompt
BlockSizeInputs == (-MaxBlockSize)..MaxBlockSize

\* main.py's choose_date_interval(block_size, current_date, next_date):
\* one scan, a click on current_date, then a click on current_date -
\* block_size if the scan shows it available, else one page back
MainChooseDateInterval(v, bs, cur) ==
    IF cur \notin DOMAIN ScanVisibleDates(v)
    THEN [view |-> v, scans |-> 1, navs |-> 0, clicked |-> <<>>,
          err |-> "KeyError"]
    ELSE IF cur - bs \in DOMAIN ScanVisibleDates(v)
            /\ ScanVisibleDates(v)[cur - bs].available
         THEN [view |-> v, scans |-> 1, navs |-> 0,
               clicked |-> <<cur, cur - bs>>, err |-> "none"]
         ELSE [view |-> GotoPrevMonth(v, 1), scans |-> 1, navs |-> 1,
               clicked |-> <<cur>>, err |-> "none"]

\* main: escape twice, the block size prompt, then main.py's
\* download_iteration up to its loop: dialog, calendar, cursor
MainBlockSize ==
    /\ pc = "reported"
    /\ \E bs \in BlockSizeInputs, v \in OpenViews :
        /\ block_size' = bs
        /\ view' = v
        /\ current_date' = StartDate(available_dates)
        /\ next_date' = NextDate(StartDate(available_dates), bs)
    /\ pc' = "main_loop"
    /\ UNCHANGED <<calendar, downloads, err, total_availability_df_arr,
                   available_dates, focus, blocks, update_clicks,
                   download_clicks, scans, navs, clicked, slept,
                   page_months, log, windows, user_ds_choice,
                   user_dst_choice, search_term, dataset_type, browser,
                   clicked_handles>>

\* main.py's loop body, first statement; nothing reopens the dialog after a
\* request, so from the second iteration on the scan may find no calendar
\* at all, and set_index("date") on the empty frame raises KeyError
MainLoopChoose ==
    /\ pc = "main_loop"
    /\ LoopCond(next_date, available_dates)
    /\ download_clicks < MaxSubmits
    /\ \/ LET r == MainChooseDateInterval(view, block_size, current_date)
          IN  /\ blocks' = Append(blocks,
                                  <<current_date, current_date - block_size>>)
              /\ view' = r.view
              /\ scans' = r.scans
              /\ navs' = r.navs
              /\ clicked' = r.clicked
              /\ err' = r.err
              /\ pc' = IF r.err = "none" THEN "main_selected" ELSE "raised"
       \/ /\ download_clicks > 0
          /\ err' = "KeyError"
          /\ pc' = "raised"
          /\ UNCHANGED <<blocks, view, scans, navs, clicked>>
    /\ UNCHANGED <<calendar, downloads, total_availability_df_arr,
                   available_dates, block_size, current_date, next_date,
                   focus, update_clicks, download_clicks, slept,
                   page_months, log, windows, user_ds_choice,
                   user_dst_choice, search_term, dataset_type, browser,
                   clicked_handles>>

\* main.py's loop body: 'Aggiorna', 'Download files', sleep(10); the
\* cursor of download_iteration is not assigned
MainSubmit ==
    /\ pc = "main_selected"
    /\ update_clicks' = update_clicks + 1
    /\ download_clicks' = download_clicks + 1
    /\ downloads' = [downloads EXCEPT !.pending = @ + 1]
    /\ current_date' = current_date
    /\ next_date' = next_date
    /\ slept' = TRUE
    /\ pc' = "main_loop"
    /\ UNCHANGED <<calendar, view, err, total_availability_df_arr,
                   available_dates, block_size, focus, blocks, scans, navs,
                   clicked, page_months, log, windows, user_ds_choice,
                   user_dst_choice, search_term, dataset_type, browser,
                   clicked_handles>>

\* main.py after the loop: availability_df.loc[available_dates[0]] on the
\* frame of the last loop iteration, which is unbound if there was none
MainFlush ==
    /\ pc = "main_loop"
    /\ ~LoopCond(next_date, available_dates)
    /\ IF blocks = <<>>
       THEN /\ err' = "UnboundLocalError"
            /\ pc' = "raised"
            /\ clicked' = clicked
       ELSE IF available_dates[1] \in VisibleDates(view + navs)
            THEN /\ err' = err
                 /\ pc' = "done"
                 /\ clicked' = Append(clicked, available_dates[1])
            ELSE /\ err' = "KeyError"
                 /\ pc' = "raised"
                 /\ clicked' = clicked
    /\ UNCHANGED <<calendar, view, downloads, total_availability_df_arr,
                   available_dates, block_size, current_date, next_date,
                   focus, blocks, update_clicks, download_clicks, scans,
                   navs, slept, page_months, log, windows, user_ds_choice,
                   user_dst_choice, search_term, dataset_type, browser,
                   clicked_handles>>

\* the process at the start of main: nothing typed, no browser; main.py
\* never looks at about:downloads, so the transfers are left out of its runs
InitMain ==
    /\ calendar \in {{}} \cup {{lo, hi} : lo \in Days, hi \in Days}
    /\ view = 0
    /\ downloads = [pending |-> 0, nostate |-> 0, state |-> 0]
    /\ pc = "menu_ds"
    /\ err = "none"
    /\ total_availability_df_arr = <<>>
    /\ available_dates = <<>>
    /\ block_size = 1
    /\ current_date = 0
    /\ next_date = 0
    /\ focus = 0
    /\ blocks = <<>>
    /\ update_clicks = 0
    /\ download_clicks = 0
    /\ scans = 0
    /\ navs = 0
    /\ clicked = <<>>
    /\ slept = FALSE
    /\ page_months = PageMonths
    /\ log = <<>>
    /\ windows = 1
    /\ user_ds_choice = 0
    /\ user_dst_choice = 0
    /\ search_term = ""
    /\ dataset_type = ""
    /\ browser = FALSE
    /\ clicked_handles = <<>>

NextMain ==
    \/ MenuDataset
    \/ MenuDatasetType
    \/ CreateSession
    \/ ScanPage
    \/ ScanFinish
    \/ MainReport
    \/ MainBlockSize
    \/ MainLoopChoose
    \/ MainSubmit
    \/ MainFlush

SpecMain == InitMain /\ [][NextMain]_vars

\* -------------------------------------------------- scan_all_dates alone
\* scan_all_dates on a widget that renders PageMonths or more months per
\* page, while the scan still pages back by ScanStep: page views overlap
\* when more than ScanStep months are shown
ScanDays == 0..((NMonths + PageMonths) * MonthLen - 1)

\* availability patterns over a range one page longer than Days, so that
\* an empty page can lie between two stretches of data
ScanCalendars ==
    {{}} \cup {lo..hi : lo \in ScanDays, hi \in ScanDays}
         \cup {{lo, hi} : lo \in ScanDays, hi \in ScanDays}

InitScan ==
    /\ calendar \in ScanCalendars
    /\ view \in 0..NMonths
    /\ page_months \in PageMonths..MaxPageMonths
    /\ downloads = [pending |-> 0, nostate |-> 0, state |-> 0]
    /\ pc = "scan"
    /\ err = "none"
    /\ total_availability_df_arr = <<>>
    /\ available_dates = <<>>
    /\ block_size = 1
    /\ current_date = 0
    /\ next_date = 0
    /\ focus = 0
    /\ blocks = <<>>
    /\ update_clicks = 0
    /\ download_clicks = 0
    /\ scans = 0
    /\ navs = 0
    /\ clicked = <<>>
    /\ slept = FALSE
    /\ log = <<>>
    /\ windows = 1
    /\ user_ds_choice = 0
    /\ user_dst_choice = 0
    /\ search_term = ds_choices[1]
    /\ dataset_type = dst_choices[1]
    /\ browser = TRUE
    /\ clicked_handles = <<>>

NextScan ==
    \/ ScanPage
    \/ ScanFinish

SpecScan == InitScan /\ [][NextScan]_vars

\* ============================================================== claims
AvailableSet == {available_dates[i] : i \in DOMAIN available_dates}
MinAvail == CHOOSE x \in AvailableSet : \A y \in AvailableSet : x <= y
MaxAvail == CHOOSE x \in AvailableSet : \A y \in AvailableSet : x >= y
\* a block as the closed date interval [older, newer]
Interval(b) == b[2]..b[1]
LastPair == blocks[Len(blocks)]
\* the states a choose_date_interval call ends in: `blocks` changes only in
\* the steps that lead to them, so what holds of `blocks` there holds always
AfterChoose == pc \in {"selected", "done", "raised"}

\* C1: dl_check returns only when every transfer listed on the monitor has a
\* state attribute: a step that leaves dl_check is taken with no listed
\* transfer lacking its state.
C1_ReturnsOnlyWhenAllTerminal ==
    [][(pc = "dl_check" /\ pc' # "dl_check") => downloads.nostate = 0]_vars

\* C2: at most one block in flight: whenever 'Download files' is clicked, no
\* transfer requested for an earlier block is still short of a terminal state.
C2_OneBlockInFlight ==
    [][download_clicks' # download_clicks
          => (downloads.pending = 0 /\ downloads.nostate = 0)]_vars

\* C3: for non-empty available dates and block_size >= 1 the selected pairs
\* form a gap-free chain: the first newer endpoint is the maximum available
\* date, each older endpoint is the next pair's newer endpoint, and once the
\* run has completed the last older endpoint is the minimum available date
\* and the intervals together are exactly [min, max].
C3_GapFreeChain ==
    (AfterChoose /\ block_size >= 1 /\ blocks # <<>>) =>
        /\ blocks[1][1] = MaxAvail
        /\ \A i \in 1..(Len(blocks) - 1) : blocks[i][2] = blocks[i + 1][1]
        /\ pc = "done" =>
              /\ LastPair[2] = MinAvail
              /\ UNION {Interval(blocks[i]) : i \in DOMAIN blocks}
                    = MinAvail..MaxAvail

\* C3 witness: a completed run of two loop blocks and the flush pair
C3_Witness ==
    pc = "done" /\ Len(blocks) = 3 /\ block_size = 2

\* C4 as claimed: no two distinct blocks, as closed intervals, share a date.
C4_NoDateTwice ==
    \A i \in DOMAIN blocks : \A j \in DOMAIN blocks :
        i # j => Interval(blocks[i]) \cap Interval(blocks[j]) = {}

\* C4 amended: for block_size >= 1, two consecutive blocks share exactly
\* their common endpoint (the older endpoint of the earlier one) and two
\* non-consecutive blocks share no date.
C4_SharedBoundaryOnly ==
    (AfterChoose /\ block_size >= 1) =>
        \A i \in DOMAIN blocks : \A j \in DOMAIN blocks :
            i < j => Interval(blocks[i]) \cap Interval(blocks[j])
                        = IF j = i + 1 THEN {blocks[i][2]} ELSE {}

\* C4 witness: a completed run of at least four blocks
C4_Witness ==
    pc = "done" /\ Len(blocks) >= 4

\* C5: the tail pair is submitted like every other block: on return there
\* are as many refresh and download clicks as selected pairs.
C5_TailSubmitted ==
    pc = "done" =>
        (download_clicks = Len(blocks) /\ update_clicks = Len(blocks))

\* C6: when the scan finds no available date, scan_all_dates returns the
\* empty list and nothing after it raises an error.
C6_EmptyScanExitsCleanly ==
    (pc \notin {"scan", "scan_exit"} /\ available_dates = <<>>) => err = "none"

\* C7: while no transfer on the monitor has a state attribute (also when the
\* monitor lists none), dl_check does not return: the program stays in
\* dl_check and no pair is selected or submitted.
C7_BlocksWithoutTerminalState ==
    [][(pc = "dl_check" /\ downloads.state = 0)
          => /\ pc' = "dl_check"
             /\ blocks' = blocks
             /\ download_clicks' = download_clicks
             /\ update_clicks' = update_clicks]_vars

\* C7 witness: dl_check has slept and the monitor lists no transfer at all
C7_Witness ==
    /\ pc = "dl_check"
    /\ slept
    /\ downloads.state = 0
    /\ downloads.nostate = 0

\* max - min is a positive exact multiple of block_size
ExactMultiple ==
    /\ block_size >= 1
    /\ available_dates # <<>>
    /\ MaxAvail > MinAvail
    /\ (MaxAvail - MinAvail) % block_size = 0
Multiples == (MaxAvail - MinAvail) \div block_size

\* C8 as claimed: with max - min = k * block_size the loop emits k full
\* blocks, the last one ending at the minimum date, and the flush pair is
\* the trivial (min, min).
C8_TrivialFlush ==
    (pc = "done" /\ ExactMultiple) =>
        /\ Len(blocks) = Multiples + 1
        /\ blocks[Multiples][2] = MinAvail
        /\ LastPair = <<MinAvail, MinAvail>>

\* C8 amended: with max - min = k * block_size, k >= 1, the loop emits the
\* k - 1 full blocks (max - (i-1)*bs, max - i*bs), i < k, and the flush pair
\* is the k-th full block (min + block_size, min); no (min, min) pair is
\* selected.
C8_ExactMultipleBlocks ==
    (pc = "done" /\ ExactMultiple) =>
        /\ Len(blocks) = Multiples
        /\ \A i \in DOMAIN blocks :
              blocks[i] = <<MaxAvail - (i - 1) * block_size,
                            MaxAvail - i * block_size>>
        /\ LastPair = <<MinAvail + block_size, MinAvail>>

\* C8 witness: Scenario A, available days 1..10 and block size 3, completed
\* with the pairs (10,7), (7,4), (4,1)
C8_Witness ==
    /\ pc = "done"
    /\ block_size = 3
    /\ available_dates = <<1, 2, 3, 4, 5, 6, 7, 8, 9, 10>>
    /\ blocks = << <<10, 7>>, <<7, 4>>, <<4, 1>> >>

\* C9: every date cell clicked by choose_date_interval is an available date.
C9_OnlyAvailableClicked ==
    \A i \in DOMAIN clicked : clicked[i] \in AvailableSet

\* the last choose_date_interval call has just ended (the page is as it left it)
JustChose == blocks # <<>> /\ (pc \in {"selected", "done"} \/ err = "KeyError")
\* the page the last choose_date_interval call started on
FirstView == view + navs

\* C10: when the older date is not on the page a choose_date_interval call
\* starts on, the call pages back exactly once and scans exactly once more;
\* then it clicks the older date if the new page has it, and otherwise raises
\* without clicking it.  Once an error is raised nothing is navigated,
\* selected or submitted any more.
C10_OneRetryThenFatal ==
    /\ [](JustChose /\ LastPair[2] \notin VisibleDates(FirstView) =>
            /\ navs = 1
            /\ scans = 2
            /\ IF LastPair[2] \in VisibleDates(view)
               THEN /\ err = "none"
                    /\ clicked # <<>>
                    /\ clicked[Len(clicked)] = LastPair[2]
               ELSE /\ err = "KeyError"
                    /\ pc = "raised"
                    /\ \A i \in DOMAIN clicked : clicked[i] # LastPair[2])
    /\ [][err # "none" =>
            /\ pc' = pc
            /\ view' = view
            /\ blocks' = blocks
            /\ clicked' = clicked
            /\ download_clicks' = download_clicks]_vars

\* C10 witness: a second block whose newer date was clicked and whose older
\* date was missing on the first page and on the page before it
C10_Witness ==
    /\ err = "KeyError"
    /\ Len(blocks) = 2
    /\ navs = 1
    /\ scans = 2
    /\ clicked = <<LastPair[1]>>

\* C11 as claimed: an absent newer endpoint is never the reason of an error:
\* when the page the call starts on lacks the newer date but shows the older
\* one, the call ends without error having selected only the older date.
C11_NewerMissNeverFatal ==
    (JustChose /\ LastPair[1] \notin VisibleDates(FirstView)
               /\ LastPair[2] \in VisibleDates(FirstView)) =>
        (err = "none" /\ clicked = <<LastPair[2]>>)

\* C11 amended: when the page the call starts on lacks the newer date, the
\* call pages back once, scans once more and never clicks the newer date; if
\* the page before shows the older date it clicks that date alone and raises
\* nothing, and a loop block is then submitted as it is; if the page before
\* does not show the older date (also when the first page did) KeyError ends
\* the run.
C11_NewerMissSelectsOlderOnly ==
    /\ [](JustChose /\ LastPair[1] \notin VisibleDates(FirstView) =>
            /\ navs = 1
            /\ scans = 2
            /\ LastPair[1] # LastPair[2] =>
                  \A i \in DOMAIN clicked : clicked[i] # LastPair[1]
            /\ IF LastPair[2] \in VisibleDates(view)
               THEN err = "none" /\ clicked = <<LastPair[2]>>
               ELSE err = "KeyError" /\ pc = "raised" /\ clicked = <<>>)
    /\ [][(pc = "selected" /\ pc' # "selected") =>
            /\ pc' = "dl_check"
            /\ update_clicks' = update_clicks + 1
            /\ download_clicks' = download_clicks + 1]_vars

\* C11 witness: a loop block, about to be submitted, for which only the older
\* date was clicked, after one page-back
C11_Witness ==
    /\ pc = "selected"
    /\ navs = 1
    /\ LastPair[1] # LastPair[2]
    /\ clicked = <<LastPair[2]>>

\* ---------------------------------------------------------------- C12
\* the element handles held by the data frames the scan retains
\* (total_availability_df_arr, later self.total_availability_df)
RetainedHandles ==
    UNION {{total_availability_df_arr[i][d].element :
                d \in DOMAIN total_availability_df_arr[i]} :
           i \in DOMAIN total_availability_df_arr}

\* retained handles that belong to a page other than the one now shown
StaleHandles == {h \in RetainedHandles : h[1] # view}

\* a step in which goto_prev_month runs: an iteration of scan_all_dates, a
\* choose_date_interval that pages back, or the flush of download_iteration
GotoPrevMonthInvoked ==
    \/ total_availability_df_arr' # total_availability_df_arr
    \/ /\ pc = "loop"
       /\ blocks' # blocks
       /\ (navs' > 0 \/ ~LoopCond(next_date, available_dates))

\* C12 as claimed: handles never outlive a pagination: after any step in
\* which goto_prev_month ran, no retained structure holds a handle of a page
\* snapshot taken before the navigation.
C12_NoHandleOutlivesPagination ==
    [][GotoPrevMonthInvoked => StaleHandles' = {}]_vars

\* ---------------------------------------------------------------- C13
\* C13 as claimed: the list scan_all_dates returns is sorted ascending and
\* holds every available date at most once, also when page views overlap.
C13_SortedWithoutDuplicates ==
    pc = "scanned" =>
        \A i \in 1..(Len(available_dates) - 1) :
            available_dates[i] < available_dates[i + 1]

\* ---------------------------------------------------------------- C14
HasAvailable(df) == AvailableRows(df) # <<>>

\* dates of the cells of every page read so far
ScannedCells ==
    UNION {DOMAIN total_availability_df_arr[i] :
           i \in DOMAIN total_availability_df_arr}

\* C14: scan_all_dates stops at the first page scan that yields no available
\* date: while it loops every page read had one; when it has left the loop
\* the last page read, and only that one, had none, so exactly k pages are
\* read if the k-th is the first empty one; each page read lies ScanStep
\* months before the previous one and nothing is read after the loop; the
\* result holds the available dates of the pages read and none that lies
\* before the empty page.
C14_StopsAtFirstEmptyPage ==
    /\ [](LET arr == total_availability_df_arr
              k == Len(arr)
          IN  /\ pc = "scan" => \A i \in 1..k : HasAvailable(arr[i])
              /\ pc # "scan" =>
                    /\ k >= 1
                    /\ ~HasAvailable(arr[k])
                    /\ \A i \in 1..(k - 1) : HasAvailable(arr[i])
              /\ \A i \in 1..(k - 1) :
                    \A d \in DOMAIN arr[i], e \in DOMAIN arr[i + 1] :
                        arr[i + 1][e].element[1] =
                            arr[i][d].element[1] - ScanStep
              /\ pc = "scanned" =>
                    /\ AvailableSet = calendar \cap ScannedCells
                    /\ \A d \in calendar :
                          (\A e \in DOMAIN arr[k] : d < e) =>
                              d \notin AvailableSet)
    /\ [][pc # "scan" =>
            total_availability_df_arr' = total_availability_df_arr]_vars

\* C14 witness: the second page read was the empty one and the calendar has
\* available dates before it that the result lacks
C14_Witness ==
    /\ pc = "scanned"
    /\ Len(total_availability_df_arr) = 2
    /\ AvailableSet # {}
    /\ \E d \in calendar :
          /\ d \notin AvailableSet
          /\ \A e \in DOMAIN total_availability_df_arr[2] : d < e

\* ---------------------------------------------------------------- C15
\* download_iteration is in or past its loop
InIteration == pc \in {"loop", "selected", "dl_check", "reopen", "done"}

\* C15: for non-empty available dates and block_size >= 1, with every
\* completion poll returning, the loop of download_iteration terminates: the
\* cursor starts at the maximum and goes down by exactly block_size per
\* iteration, staying above the minimum; an iteration begins only while
\* cursor - block_size is above the minimum, and the first time it is not
\* the loop is left for the final call.
C15_LoopTerminates ==
    /\ [](InIteration /\ pc # "done" =>
            /\ current_date = MaxAvail - block_size * download_clicks
            /\ pc # "selected" => next_date = current_date - block_size
            /\ download_clicks > 0 => current_date > MinAvail)
    /\ [][(pc = "selected" /\ pc' = "dl_check") =>
            current_date' = current_date - block_size]_vars
    /\ [][(pc = "loop" /\ pc' # "loop") =>
            IF current_date - block_size > MinAvail
            THEN /\ pc' \in {"selected", "raised"}
                 /\ blocks' = Append(blocks,
                        <<current_date, current_date - block_size>>)
            ELSE /\ pc' \in {"done", "raised"}
                 /\ blocks' = Append(blocks, <<current_date, MinAvail>>)]_vars
    /\ [](InIteration => <>(pc \in {"done", "raised"}))

\* C15 witness: a run whose loop ran three times with a block of two days or
\* more and then ended
C15_Witness ==
    /\ pc = "done"
    /\ block_size >= 2
    /\ download_clicks = 3
    /\ current_date = MaxAvail - 3 * block_size

\* ---------------------------------------------------------------- C16
\* C16: the pairs download_iteration selects (loop blocks, then the flush
\* pair) descend: each pair's newer endpoint is strictly earlier than the
\* newer endpoint of the pair before, and its older endpoint is not later
\* than the older endpoint of the pair before (block_size >= 1).
C16_BlocksDescend ==
    [][(blocks' # blocks /\ blocks # <<>> /\ block_size >= 1) =>
        /\ Len(blocks') = Len(blocks) + 1
        /\ SubSeq(blocks', 1, Len(blocks)) = blocks
        /\ blocks'[Len(blocks')][1] < LastPair[1]
        /\ blocks'[Len(blocks')][2] <= LastPair[2]]_vars

\* C16 witness: two loop blocks of two days followed by a shorter flush pair
C16_Witness ==
    /\ pc = "done"
    /\ block_size = 2
    /\ Len(blocks) = 3
    /\ blocks[3][1] - blocks[3][2] < block_size

\* ---------------------------------------------------------------- C17
\* C17 as claimed: every pair download_iteration selects, the flush pair
\* included, has its older endpoint strictly earlier than its newer
\* endpoint, for every non-empty set of available dates (a single available
\* date included) and every block_size >= 1.
C17_OlderStrictlyEarlier ==
    (AfterChoose /\ block_size >= 1) =>
        \A i \in DOMAIN blocks : blocks[i][2] < blocks[i][1]

\* ---------------------------------------------------------------- C18
\* C18: if block_size covers the full range (max - block_size <= min) the
\* loop body of download_iteration never runs: the step that leaves the top
\* of the loop is the final call, made when nothing was selected or
\* submitted before, and it selects the pair (max, min); the run has then
\* ended and selects or submits nothing more.
C18_OversizedBlockSinglePair ==
    /\ [][(/\ pc = "loop"
            /\ pc' # "loop"
            /\ block_size >= 1
            /\ MaxAvail - block_size <= MinAvail) =>
                /\ update_clicks = 0
                /\ download_clicks = 0
                /\ blocks = <<>>
                /\ blocks' = <<<<MaxAvail, MinAvail>>>>
                /\ pc' \in {"done", "raised"}]_vars
    /\ [][(pc = "done" \/ pc = "raised") =>
            /\ pc' = pc
            /\ blocks' = blocks
            /\ update_clicks' = update_clicks
            /\ download_clicks' = download_clicks]_vars

\* C18 witness: the boundary case, max - block_size = min, after the final
\* call
C18_Witness ==
    /\ pc = "done"
    /\ available_dates # <<>>
    /\ block_size >= 2
    /\ MaxAvail - block_size = MinAvail
    /\ blocks = <<<<MaxAvail, MinAvail>>>>

\* ---------------------------------------------------------------- C19
\* the operations of a log, in order
Ops(l) == [i \in DOMAIN l |-> l[i].op]

IsPrefix(a, b) == Len(a) <= Len(b) /\ a = SubSeq(b, 1, Len(a))

\* what download_iteration does before its loop
StartOps == <<"about:downloads", "open_dl_dialog", "open_calendar">>

\* the order claimed for one loop block
BlockOps ==
    <<"choose_date_interval", "Aggiorna", "Download files", "dl_check",
      "open_dl_dialog", "open_calendar">>

\* C19: for every loop block the interactions come in the order select
\* endpoints, click refresh, click download, await completion on the
\* monitor, reopen the dialog, reopen the calendar; the endpoints of the
\* next block or of the flush pair are selected only when the block before
\* has gone through all of them (or, for the first pair, right after the
\* dialog and the calendar were first opened).
C19_BlockStepsInOrder ==
    /\ [](log # <<>> =>
            \/ Ops(log) = StartOps
            \/ IsPrefix(Ops(log), BlockOps))
    /\ [](/\ pc = "selected" => Len(log) = 1
          /\ pc = "dl_check" => Len(log) = 3
          /\ pc = "reopen" => Len(log) = 4
          /\ (pc = "loop" /\ download_clicks > 0) => Len(log) = 6)
    /\ [][blocks' # blocks =>
            /\ Ops(log) = IF blocks = <<>> THEN StartOps ELSE BlockOps
            /\ Ops(log') = <<"choose_date_interval">>]_vars

\* C19 witness: the endpoints of a second block have just been selected
C19_Witness ==
    /\ pc = "selected"
    /\ Len(blocks) = 2
    /\ Ops(log) = <<"choose_date_interval">>
    /\ download_clicks = 1

\* ---------------------------------------------------------------- C20
\* C20: download_iteration opens the monitor window exactly once, at its
\* start; window 1 is in focus only between the switch that precedes
\* dl_check and the switch that follows its return, and the only
\* interactions made there are the opening of about:downloads and the
\* polls; every dialog, calendar, selection, refresh and download
\* interaction is made with window 0 in focus, and window 0 is in focus
\* after the last poll has returned.
C20_FocusDiscipline ==
    /\ [](/\ windows \in {1, 2}
          /\ (InIteration \/ err \in {"KeyError", "IndexError"}) <=>
                windows = 2)
    /\ [][windows' # windows =>
            /\ pc \in {"scanned", "reported"}
            /\ windows' = windows + 1]_vars
    /\ [](/\ focus \in {0, 1}
          /\ focus = 1 => pc \in {"dl_check", "reopen"}
          /\ pc \in {"loop", "selected", "done"} => focus = 0)
    /\ [](\A i \in DOMAIN log :
            log[i].window =
                IF log[i].op \in {"about:downloads", "dl_check"}
                THEN 1 ELSE 0)

\* C20 witness: the run has ended after two polls, with window 0 in focus
C20_Witness ==
    /\ pc = "done"
    /\ download_clicks = 2
    /\ windows = 2
    /\ focus = 0
    /\ log = <<Interaction("choose_date_interval", 0)>>

\* ---------------------------------------------------------------- C21
\* C21 as claimed: main creates a browser session only when both numbers
\* typed at the menus are valid indices of their menu (0 <= n < length):
\* for every other integer, negative ones included, it exits before.
C21_InvalidIndexExits ==
    browser =>
        /\ user_ds_choice \in 0..(Len(ds_choices) - 1)
        /\ user_dst_choice \in 0..(Len(dst_choices) - 1)

\* ---------------------------------------------------------------- C22
\* a download_iteration (of either class) has been invoked
Downloading == InIteration \/ pc \in {"main_loop", "main_selected"}

\* C22 as claimed: download_iteration is only ever invoked with a positive
\* block size: whenever its loop is reached, block_size >= 1.
C22_PositiveBlockSizeOnly ==
    Downloading => block_size >= 1

\* ---------------------------------------------------------------- C23
\* C23 as claimed: in main.py's download_iteration, for block_size >= 1, the
\* cursor goes down by block_size with each submitted block, and no
\* endpoint pair is selected for submission twice.
C23_MainCursorAdvances ==
    /\ [][(block_size >= 1 /\ pc = "main_selected" /\ pc' = "main_loop") =>
            /\ current_date' = current_date - block_size
            /\ next_date' = next_date - block_size]_vars
    /\ [](block_size >= 1 =>
            \A i \in DOMAIN blocks : \A j \in DOMAIN blocks :
                i < j => blocks[i] # blocks[j])

\* ---------------------------------------------------------------- C24
\* C24: in utils.py every click on a date cell goes through a handle of the
\* page scan made after the latest pagination: each click of a
\* choose_date_interval call of download_iteration is on the cell of the
\* date selected and uses a handle of the snapshot of the page shown when
\* the click is made.
C24_ClicksUseFreshHandles ==
    [][blocks' # blocks /\ pc = "loop" =>
        /\ Len(clicked_handles') = Len(clicked')
        /\ \A i \in DOMAIN clicked_handles' :
              /\ clicked_handles'[i].element[1] = clicked_handles'[i].page
              /\ clicked_handles'[i].element[2] = clicked'[i]
              /\ clicked_handles'[i].page \in {view' + navs', view'}]_vars

\* C24 witness: a loop block whose newer date was clicked on the page first
\* shown and whose older date was clicked on the page before, each through
\* a handle of its own page
C24_Witness ==
    /\ pc = "selected"
    /\ navs = 1
    /\ Len(clicked_handles) = 2
    /\ clicked_handles[1].page = view + 1
    /\ clicked_handles[2].page = view
    /\ clicked_handles[2].element = <<view, LastPair[2]>>

====
